---- MODULE Spec2Model ----
(***************************************************************************)
(* Model of library_management.py: the Book record with its text encoding  *)
(* (to_string / from_string) and the Library store (load_data, save_data,  *)
(* add_book, generate_id, delete_book, update_status) over a backing file. *)
(*                                                                         *)
(* Text is modelled as a sequence of one-character strings, so that the    *)
(* ';'-joined encoding and the split(";") decoding are computed as the     *)
(* code computes them.  A file is a sequence of lines, each ending with    *)
(* its newline character, or NoFile when the path does not exist.          *)
(***************************************************************************)
EXTENDS Integers, Sequences, FiniteSets, TLC

VARIABLES
    books,   \* self.books of the running Library instance
    file,    \* the backing file self.data_file names
    run,     \* the process: "down" (not started), "up", "crashed"
    msg,     \* the message the last operation printed
    saved,   \* the last operation called save_data
    shown,   \* the records the last operation printed
    peer     \* self.books of a second Library instance on the same file

vars == <<books, file, run, msg, saved, shown, peer>>

(* ---------------------------- bounds ----------------------------------- *)
MaxBooks == 4

MaxDelimBooks == 2

MaxLines == 2

MaxTwoBooks == 2

(* ------------------------ text primitives ------------------------------ *)
DigitChars == <<"0", "1", "2", "3", "4", "5", "6", "7", "8", "9">>

IsDigit(c) == c \in {"0", "1", "2", "3", "4", "5", "6", "7", "8", "9"}

DigitVal(c) == CHOOSE d \in 0..9 : DigitChars[d + 1] = c

IsSpace(c) == c \in {" ", "\n"}

RECURSIVE lstrip(_)
lstrip(s) == IF s # <<>> /\ IsSpace(s[1]) THEN lstrip(Tail(s)) ELSE s

RECURSIVE rstrip(_)
rstrip(s) ==
    IF s # <<>> /\ IsSpace(s[Len(s)]) THEN rstrip(SubSeq(s, 1, Len(s) - 1)) ELSE s

\* str.strip(): leading and trailing whitespace removed
strip(s) == rstrip(lstrip(s))

\* str.split(sep): the parts between the occurrences of sep (always >= 1 part)
RECURSIVE split(_, _)
split(s, sep) ==
    IF \A i \in 1..Len(s) : s[i] # sep
    THEN <<s>>
    ELSE LET k == CHOOSE i \in 1..Len(s) :
                      s[i] = sep /\ \A j \in 1..(i - 1) : s[j] # sep
         IN  <<SubSeq(s, 1, k - 1)>> \o split(SubSeq(s, k + 1, Len(s)), sep)

RECURSIVE DigitsVal(_)
DigitsVal(s) ==
    IF s = <<>> THEN 0
    ELSE DigitsVal(SubSeq(s, 1, Len(s) - 1)) * 10 + DigitVal(s[Len(s)])

\* int(text): optional surrounding whitespace, optional sign, one or more
\* decimal digits; anything else raises ValueError (ok = FALSE)
int(s) ==
    LET t    == strip(s)
        neg  == t # <<>> /\ t[1] = "-"
        body == IF t # <<>> /\ t[1] \in {"-", "+"} THEN Tail(t) ELSE t
    IN  IF body = <<>> \/ \E i \in 1..Len(body) : ~IsDigit(body[i])
        THEN [ok |-> FALSE, val |-> 0]
        ELSE [ok |-> TRUE,
              val |-> IF neg THEN 0 - DigitsVal(body) ELSE DigitsVal(body)]

RECURSIVE NatStr(_)
NatStr(n) ==
    IF n < 10 THEN <<DigitChars[n + 1]>>
    ELSE NatStr(n \div 10) \o <<DigitChars[(n % 10) + 1]>>

\* str.lower() on the letters the inputs use
LowerChar(c) ==
    CASE c = "A" -> "a"
      [] c = "B" -> "b"
      [] c = "C" -> "c"
      [] OTHER -> c

lower(s) == [i \in DOMAIN s |-> LowerChar(s[i])]

\* needle in hay, for two texts
contains(hay, needle) ==
    \E k \in 0..(Len(hay) - Len(needle)) :
        SubSeq(hay, k + 1, k + Len(needle)) = needle

\* str(n) as the f-string of to_string formats an int
str(n) == IF n < 0 THEN <<"-">> \o NatStr(0 - n) ELSE NatStr(n)

(* ------------------------------ Book ----------------------------------- *)
\* the two status labels (the source's "в наличии" and "выдана",
\* abbreviated; the first keeps its inner space)
StatusAvailable == <<"v", " ", "n">>

StatusIssued == <<"v", "y", "d">>

Book(book_id, title, author, year, status) ==
    [id |-> book_id, title |-> title, author |-> author,
     year |-> year, status |-> status]

\* the format of to_string's docstring: "; " between the fields
to_string_spaced(b) ==
    str(b.id) \o <<";", " ">> \o b.title \o <<";", " ">> \o b.author
        \o <<";", " ">> \o str(b.year) \o <<";", " ">> \o b.status

to_string(b) ==
    str(b.id) \o <<";">> \o b.title \o <<";">> \o b.author \o <<";">>
        \o str(b.year) \o <<";">> \o b.status

\* from_string without the strip() of the line
from_string_nostrip(line) ==
    LET parts == split(line, ";")
    IN  IF Len(parts) < 5 \/ ~int(parts[1]).ok \/ ~int(parts[4]).ok
        THEN [ok |-> FALSE, book |-> Book(0, <<>>, <<>>, 0, <<>>)]
        ELSE [ok |-> TRUE,
              book |-> Book(int(parts[1]).val, parts[2], parts[3],
                            int(parts[4]).val, parts[5])]

\* from_string: ok = FALSE stands for the IndexError / ValueError it raises
from_string(line) ==
    LET parts == split(strip(line), ";")
    IN  IF Len(parts) < 5 \/ ~int(parts[1]).ok \/ ~int(parts[4]).ok
        THEN [ok |-> FALSE, book |-> Book(0, <<>>, <<>>, 0, <<>>)]
        ELSE [ok |-> TRUE,
              book |-> Book(int(parts[1]).val, parts[2], parts[3],
                            int(parts[4]).val, parts[5])]

(* ----------------------------- Library --------------------------------- *)
\* the backing path: absent, or a text file with the given lines
NoFile == [exists |-> FALSE, lines |-> <<>>]

TextFile(lines) == [exists |-> TRUE, lines |-> lines]

\* insertion of b after every element whose id is <= b.id (stable)
RECURSIVE InsertById(_, _)
InsertById(s, b) ==
    IF s = <<>> THEN <<b>>
    ELSE IF s[Len(s)].id <= b.id THEN Append(s, b)
    ELSE Append(InsertById(SubSeq(s, 1, Len(s) - 1), b), s[Len(s)])

\* sorted(bs, key=lambda b: b.id) / bs.sort(key=...): stable sort by id
RECURSIVE sorted(_)
sorted(bs) ==
    IF bs = <<>> THEN <<>>
    ELSE InsertById(sorted(SubSeq(bs, 1, Len(bs) - 1)), bs[Len(bs)])

\* load_data that leaves out the lines it cannot decode
load_data_skip(f) ==
    IF ~f.exists THEN [ok |-> TRUE, books |-> <<>>]
    ELSE LET good == SelectSeq(f.lines, LAMBDA l : from_string(l).ok)
         IN  [ok |-> TRUE,
              books |-> sorted([i \in 1..Len(good) |->
                                   from_string(good[i]).book])]

\* load_data: ok = FALSE stands for a decode error that escapes it
load_data(f) ==
    IF ~f.exists THEN [ok |-> TRUE, books |-> <<>>]
    ELSE IF \E i \in 1..Len(f.lines) : ~from_string(f.lines[i]).ok
    THEN [ok |-> FALSE, books |-> <<>>]
    ELSE [ok |-> TRUE,
          books |-> sorted([i \in 1..Len(f.lines) |->
                               from_string(f.lines[i]).book])]

\* save_data that stops before the last record
save_data_short(bs) ==
    TextFile([i \in 1..(Len(bs) - 1) |-> to_string(sorted(bs)[i]) \o <<"\n">>])

\* the file save_data leaves for the list bs
save_data(bs) ==
    TextFile([i \in 1..Len(bs) |-> to_string(sorted(bs)[i]) \o <<"\n">>])

RECURSIVE next_free(_, _)
next_free(used_ids, new_id) ==
    IF new_id \in used_ids THEN next_free(used_ids, new_id + 1) ELSE new_id

\* variants of generate_id used to test the properties below
generate_id_count(bs) == Len(bs) + 1

generate_id_max(bs) ==
    LET used_ids == {bs[i].id : i \in DOMAIN bs}
    IN  IF used_ids = {} THEN 1
        ELSE (CHOOSE m \in used_ids : \A u \in used_ids : u <= m) + 1

generate_id_zero(bs) == next_free({bs[i].id : i \in DOMAIN bs}, 0)

generate_id(bs) == next_free({bs[i].id : i \in DOMAIN bs}, 1)

\* index of the first book with the given id, 0 when there is none
find(bs, book_id) ==
    IF \E i \in 1..Len(bs) : bs[i].id = book_id
    THEN CHOOSE i \in 1..Len(bs) :
             bs[i].id = book_id /\ \A j \in 1..(i - 1) : bs[j].id # book_id
    ELSE 0

\* removal of the head of the list, whatever k
remove_first(bs, k) == Tail(bs)

\* list.remove of the element at index k
remove(bs, k) == SubSeq(bs, 1, k - 1) \o SubSeq(bs, k + 1, Len(bs))

\* the status selector is one of the two recognised choices
choice_any(choice) == TRUE

choice_ok(choice) == choice \in {<<"1">>, <<"2">>}

\* the selector itself stored as the status
status_of_raw(choice) == choice

status_of(choice) == IF choice = <<"1">> THEN StatusAvailable ELSE StatusIssued

\* the record already has the requested status
has_status_never(b, new_status) == FALSE

has_status(b, new_status) == b.status = new_status

\* assignment of the status to every record of the list
set_status_all(bs, k, new_status) ==
    [i \in DOMAIN bs |-> [bs[i] EXCEPT !.status = new_status]]

\* book.status = new_status on the book at index k
set_status(bs, k, new_status) == [bs EXCEPT ![k].status = new_status]

\* Book(...) as add_book calls it, with the default status
new_book_swapped(book_id, title, author, year) ==
    Book(book_id, author, title, year, StatusAvailable)

new_book(book_id, title, author, year) ==
    Book(book_id, title, author, year, StatusAvailable)

\* query == str(book.year)
year_match_in(query, b) == contains(str(b.year), query)

year_match(query, b) == query = str(b.year)

\* the argument of display_books: None, or a list of books
NoList == [given |-> FALSE, rows |-> <<>>]

List(rows) == [given |-> TRUE, rows |-> rows]

\* books or self.books: None and the empty list both give self.books
listed(arg, bs) == IF arg.given /\ arg.rows # <<>> THEN arg.rows ELSE bs

(* ----------------------------- actions --------------------------------- *)
Init ==
    /\ books = <<>>
    /\ file = NoFile
    /\ run = "up"
    /\ msg = "none"
    /\ saved = FALSE
    /\ shown = <<>>
    /\ peer = <<>>

\* add_book without the re-sort after the append
add_book_nosort(title_in, author_in, year_in) ==
    LET title  == strip(title_in)
        author == strip(author_in)
        year   == int(strip(year_in))
    IN  /\ run = "up"
        /\ shown' = <<>>
        /\ UNCHANGED peer
        /\ IF ~year.ok
           THEN /\ msg' = "year_error"
                /\ saved' = FALSE
                /\ UNCHANGED <<books, file, run>>
           ELSE LET b == new_book(generate_id(books), title, author, year.val)
                IN  /\ msg' = "added"
                    /\ saved' = TRUE
                    /\ books' = Append(books, b)
                    /\ file' = save_data(books')
                    /\ UNCHANGED run

add_book(title_in, author_in, year_in) ==
    LET title  == strip(title_in)
        author == strip(author_in)
        year   == int(strip(year_in))
    IN  /\ run = "up"
        /\ shown' = <<>>
        /\ UNCHANGED peer
        /\ IF ~year.ok
           THEN /\ msg' = "year_error"
                /\ saved' = FALSE
                /\ UNCHANGED <<books, file, run>>
           ELSE LET b == new_book(generate_id(books), title, author, year.val)
                IN  /\ msg' = "added"
                    /\ saved' = TRUE
                    /\ books' = sorted(Append(books, b))
                    /\ file' = save_data(books')
                    /\ UNCHANGED run

delete_book(id_in) ==
    LET book_id == int(strip(id_in))
        k       == find(books, book_id.val)
    IN  /\ run = "up"
        /\ shown' = <<>>
        /\ UNCHANGED peer
        /\ IF ~book_id.ok
           THEN /\ msg' = "id_error"
                /\ saved' = FALSE
                /\ UNCHANGED <<books, file, run>>
           ELSE IF k # 0
           THEN /\ msg' = "deleted"
                /\ saved' = TRUE
                /\ books' = remove(books, k)
                /\ file' = save_data(books')
                /\ UNCHANGED run
           ELSE /\ msg' = "not_found"
                /\ saved' = FALSE
                /\ UNCHANGED <<books, file, run>>

\* update_status without the save_data call after the assignment
update_status_nosave(id_in, choice_in) ==
    LET book_id    == int(strip(id_in))
        k          == find(books, book_id.val)
        choice     == strip(choice_in)
        new_status == status_of(choice)
    IN  /\ run = "up"
        /\ shown' = <<>>
        /\ UNCHANGED peer
        /\ IF ~book_id.ok
           THEN /\ msg' = "id_error"
                /\ saved' = FALSE
                /\ UNCHANGED <<books, file, run>>
           ELSE IF k = 0
           THEN /\ msg' = "not_found"
                /\ saved' = FALSE
                /\ UNCHANGED <<books, file, run>>
           ELSE IF ~choice_ok(choice)
           THEN /\ msg' = "bad_choice"
                /\ saved' = FALSE
                /\ UNCHANGED <<books, file, run>>
           ELSE IF has_status(books[k], new_status)
           THEN /\ msg' = "same_status"
                /\ saved' = FALSE
                /\ UNCHANGED <<books, file, run>>
           ELSE /\ msg' = "updated"
                /\ saved' = FALSE
                /\ books' = set_status(books, k, new_status)
                /\ UNCHANGED <<file, run>>

update_status(id_in, choice_in) ==
    LET book_id    == int(strip(id_in))
        k          == find(books, book_id.val)
        choice     == strip(choice_in)
        new_status == status_of(choice)
    IN  /\ run = "up"
        /\ shown' = <<>>
        /\ UNCHANGED peer
        /\ IF ~book_id.ok
           THEN /\ msg' = "id_error"
                /\ saved' = FALSE
                /\ UNCHANGED <<books, file, run>>
           ELSE IF k = 0
           THEN /\ msg' = "not_found"
                /\ saved' = FALSE
                /\ UNCHANGED <<books, file, run>>
           ELSE IF ~choice_ok(choice)
           THEN /\ msg' = "bad_choice"
                /\ saved' = FALSE
                /\ UNCHANGED <<books, file, run>>
           ELSE IF has_status(books[k], new_status)
           THEN /\ msg' = "same_status"
                /\ saved' = FALSE
                /\ UNCHANGED <<books, file, run>>
           ELSE /\ msg' = "updated"
                /\ saved' = TRUE
                /\ books' = set_status(books, k, new_status)
                /\ file' = save_data(books')
                /\ UNCHANGED run

search_books(query_in) ==
    LET query   == lower(strip(query_in))
        results == SelectSeq(books, LAMBDA b :
                       \/ contains(lower(b.title), query)
                       \/ contains(lower(b.author), query)
                       \/ year_match(query, b))
    IN  /\ run = "up"
        /\ saved' = FALSE
        /\ IF results # <<>>
           THEN /\ msg' = "found"
                /\ shown' = listed(List(results), books)
           ELSE /\ msg' = "no_match"
                /\ shown' = <<>>
        /\ UNCHANGED <<books, file, run, peer>>

display_books(arg) ==
    LET bs == listed(arg, books)
    IN  /\ run = "up"
        /\ saved' = FALSE
        /\ IF bs = <<>>
           THEN /\ msg' = "empty"
                /\ shown' = <<>>
           ELSE /\ msg' = "listed"
                /\ shown' = bs
        /\ UNCHANGED <<books, file, run, peer>>

\* main(): a new process constructs Library(), which loads the backing file;
\* a decode error escapes load_data and ends the process
main ==
    LET loaded == load_data(file)
    IN  /\ books' = loaded.books
        /\ run' = IF loaded.ok THEN "up" ELSE "crashed"
        /\ msg' = "none"
        /\ saved' = FALSE
        /\ shown' = <<>>
        /\ UNCHANGED <<file, peer>>

(* ------------------------------ inputs --------------------------------- *)
\* what the user types at the prompts
TitleInputs == { <<"a">>, <<" ", "b">> }

\* titles the prompt accepts and the record format or the data model does
\* not provide for: with the field delimiter in them, or blank
DelimTitleInputs ==
    { <<"a">>, <<"a", ";", "b">>, <<"a", ";", "b", ";", "5">>, <<" ">> }

AuthorInputs == { <<"c">> }

YearInputs == { <<"9">>, <<"x">>, <<>> }

IdInputs == { <<"1">>, <<"2">>, <<" ", "3">>, <<"4">>, <<"x">>, <<>> }

ChoiceInputs == { <<"1">>, <<" ", "2">>, <<"3">> }

(* ------------------- the program as a state machine -------------------- *)
AddBook ==
    /\ Len(books) < MaxBooks
    /\ \E t \in TitleInputs, a \in AuthorInputs, y \in YearInputs :
           add_book(t, a, y)

DeleteBook == \E i \in IdInputs : delete_book(i)

UpdateStatus == \E i \in IdInputs, c \in ChoiceInputs : update_status(i, c)

Launch == main

Next == AddBook \/ DeleteBook \/ UpdateStatus \/ Launch

Spec == Init /\ [][Next]_vars

\* the same program, with the titles of DelimTitleInputs among the inputs
AddDelimBook ==
    /\ Len(books) < MaxDelimBooks
    /\ \E t \in DelimTitleInputs, a \in AuthorInputs, y \in YearInputs :
           add_book(t, a, y)

NextDelim == AddDelimBook \/ DeleteBook \/ UpdateStatus \/ Launch

SpecDelim == Init /\ [][NextDelim]_vars

\* two processes on the same backing file: books is the list of the one
\* that runs, peer the list of the other; Switch hands over
Switch ==
    /\ run = "up"
    /\ books' = peer
    /\ peer' = books
    /\ msg' = "none"
    /\ saved' = FALSE
    /\ shown' = <<>>
    /\ UNCHANGED <<file, run>>

AddTwoBook ==
    /\ Len(books) < MaxTwoBooks
    /\ \E t \in TitleInputs, a \in AuthorInputs, y \in YearInputs :
           add_book(t, a, y)

NextTwo == AddTwoBook \/ Launch \/ Switch

SpecTwo == Init /\ [][NextTwo]_vars

\* the program started on a backing file of any content
QueryInputs == { <<"b">>, <<" ", "A">>, <<"9">>, <<"1">>, <<"z">>, <<>> }

SampleLines ==
    { <<"1", ";", "A", "b", ";", "c", ";", "9", ";", "v", " ", "n", "\n">>,
      <<"2", ";", " ", "b", ";", "C", "a", ";", "1", "9", ";",
        "v", "y", "d", "\n">>,
      <<"1", ";", "b", ";", "c", ";", "-", "3", ";", "v", " ", "n", "\n">>,
      <<"0", ";", "a", ";", "c", ";", "9", ";", "v", " ", "n", "\n">>,
      <<"\n">>,
      <<"1", ";", "a", ";", "c", "\n">>,
      <<"x", ";", "a", ";", "c", ";", "9", ";", "v", " ", "n", "\n">>,
      <<"1", ";", "a", ";", "c", ";", "y", ";", "v", " ", "n", "\n">> }

SampleFiles ==
    {NoFile} \cup
    {TextFile(ls) : ls \in UNION {[1..n -> SampleLines] : n \in 0..MaxLines}}

\* the lists a caller can pass to display_books: none, the empty list, one
\* book, two books in any order
ListArgs(bs) ==
    {NoList, List(<<>>)}
        \cup {List(<<bs[i]>>) : i \in DOMAIN bs}
        \cup {List(<<bs[i], bs[j]>>) : i, j \in DOMAIN bs}

InitFile ==
    /\ file \in SampleFiles
    /\ books = <<>>
    /\ run = "down"
    /\ msg = "none"
    /\ saved = FALSE
    /\ shown = <<>>
    /\ peer = <<>>

SearchBooks == \E q \in QueryInputs : search_books(q)

ListBooks == \E arg \in ListArgs(books) : display_books(arg)

NextFile == Launch \/ SearchBooks \/ ListBooks

SpecFile == InitFile /\ [][NextFile]_vars

TypeOK ==
    /\ run \in {"up", "crashed"}
    /\ saved \in BOOLEAN

(* ------------------------- derived notions ----------------------------- *)
\* the inputs by what int() and the selector test make of them
IntegerYears == {y \in YearInputs : int(y).ok}

NonIntegerYears == {y \in YearInputs : ~int(y).ok}

IntegerIds == {i \in IdInputs : int(i).ok}

NonIntegerIds == {i \in IdInputs : ~int(i).ok}

IdValue == [i \in IntegerIds |-> int(i).val]

YearValue == [y \in IntegerYears |-> int(y).val]

RecognisedChoices == {c \in ChoiceInputs : strip(c) \in {<<"1">>, <<"2">>}}

UnrecognisedChoices == ChoiceInputs \ RecognisedChoices

\* the status a recognised selector asks for
Requested ==
    [c \in RecognisedChoices |->
        IF strip(c) = <<"1">> THEN StatusAvailable ELSE StatusIssued]

Ids(bs) == {bs[i].id : i \in DOMAIN bs}

\* s and t hold the same elements with the same multiplicities
SameBag(s, t) ==
    /\ Len(s) = Len(t)
    /\ \A i \in DOMAIN s :
           Cardinality({j \in DOMAIN s : s[j] = s[i]})
               = Cardinality({j \in DOMAIN t : t[j] = s[i]})

\* the file holds exactly one encoded line per in-memory record, no other
FileMatchesBooks ==
    SameBag(file.lines, [i \in DOMAIN books |-> to_string(books[i]) \o <<"\n">>])

\* the id a file line starts with
LineId(line) == int(split(line, ";")[1]).val

AscendingIds(bs) == \A i \in 1..(Len(bs) - 1) : bs[i].id <= bs[i + 1].id

AscendingLines(ls) ==
    \A i \in 1..(Len(ls) - 1) : LineId(ls[i]) <= LineId(ls[i + 1])

(* ------------------------------ C1 ------------------------------------- *)
\* C1: starting from the empty catalog, after any sequence of operations
\* the ids of the records in the catalog are pairwise distinct.
C1_UniqueIds ==
    \A i, j \in DOMAIN books : i # j => books[i].id # books[j].id

\* an add that reused the freed id 1 while 3 and 4 are in use
C1_Witness == msg = "added" /\ Ids(books) = {1, 3, 4} /\ Len(books) = 3

(* ------------------------------ C2 ------------------------------------- *)
\* C2 as stated: after every completed operation, whatever its outcome, the
\* file holds exactly one encoded line for each in-memory record and no
\* other line.
C2_FileMatchesAfterEveryOp ==
    (run = "up" /\ msg # "none") => FileMatchesBooks

\* C2 amended: an operation that saves leaves the file holding exactly one
\* encoded line for each in-memory record and no other line; an operation
\* that does not save (not-found, invalid input, no-op) changes neither the
\* records nor the file.
C2_SaveOrUnchanged ==
    [][ msg' # "none" =>
            IF saved' THEN FileMatchesBooks' ELSE UNCHANGED <<books, file>> ]_vars

C2_Witness ==
    /\ msg = "updated" /\ saved
    /\ Len(books) = 2 /\ Len(file.lines) = 2
    /\ \E i \in DOMAIN books : \E k \in DOMAIN books[i].title :
           books[i].title[k] = ";"

(* ------------------------------ C3 ------------------------------------- *)
\* C3: after any mutating operation the in-memory sequence and the lines of
\* the file are both in ascending order of id.
C3_SortedAfterMutation ==
    saved => AscendingIds(books) /\ AscendingLines(file.lines)

\* id 1 was added while only id 3 was in the catalog: the append put it last
C3_Witness == msg = "added" /\ saved /\ Ids(books) = {1, 3} /\ Len(books) = 2

(* ------------------------------ C4 ------------------------------------- *)
\* C4: generate_id returns the smallest positive integer that is not the id
\* of a record of the catalog.
C4_SmallestFreeId ==
    LET r == generate_id(books)
    IN  /\ r >= 1
        /\ r \notin Ids(books)
        /\ \A j \in 1..(r - 1) : j \in Ids(books)

C4_Witness == Ids(books) = {1, 2, 4} /\ generate_id(books) = 3

(* ------------------------------ C5 ------------------------------------- *)
\* C5: add_book with an integer year adds exactly one record, with the id
\* generate_id had before, the given title, author and year and the status
\* available; the records present before are all kept unchanged; the file is
\* saved; on the empty catalog the record gets id 1 and the file is exactly
\* its line.
C5_AddBookEffect ==
    [][ \A t \in TitleInputs, a \in AuthorInputs, y \in IntegerYears :
          add_book(t, a, y) =>
             LET added == [id |-> generate_id(books), title |-> strip(t),
                           author |-> strip(a), year |-> YearValue[y],
                           status |-> StatusAvailable]
             IN  /\ Len(books') = Len(books) + 1
                 /\ \E k \in DOMAIN books' :
                        /\ books'[k] = added
                        /\ SubSeq(books', 1, k - 1) \o
                               SubSeq(books', k + 1, Len(books')) = books
                 /\ saved' /\ file'.exists /\ FileMatchesBooks'
                 /\ msg' = "added"
                 /\ books = <<>> =>
                        /\ added.id = 1
                        /\ file'.lines =
                               << <<"1", ";">> \o strip(t) \o <<";">>
                                    \o strip(a) \o <<";">> \o strip(y)
                                    \o <<";", "v", " ", "n", "\n">> >> ]_vars

\* the first add on the empty catalog, title "b" typed with a leading blank
C5_Witness ==
    /\ msg = "added"
    /\ books = << [id |-> 1, title |-> <<"b">>, author |-> <<"c">>,
                   year |-> 9, status |-> StatusAvailable] >>
    /\ file.lines =
           << <<"1", ";", "b", ";", "c", ";", "9", ";", "v", " ", "n", "\n">> >>

(* ------------------------------ C6 ------------------------------------- *)
\* C6: delete_book with an id of the catalog removes exactly the record
\* with that id, keeps the others unchanged and in order, saves and reports
\* success; with an id that is not in the catalog it reports not-found,
\* changes neither records nor file and does not save.
C6_DeleteBookEffect ==
    [][ \A i \in IntegerIds :
          delete_book(i) =>
             IF IdValue[i] \in Ids(books)
             THEN /\ books' = SelectSeq(books, LAMBDA b : b.id # IdValue[i])
                  /\ Len(books') = Len(books) - 1
                  /\ saved' /\ file'.exists /\ FileMatchesBooks'
                  /\ Len(file'.lines) = Len(books')
                  /\ msg' = "deleted"
             ELSE /\ UNCHANGED <<books, file>>
                  /\ ~saved'
                  /\ msg' = "not_found" ]_vars

\* ids {1,3} left by a delete, two lines in the file
C6_Witness ==
    /\ msg = "deleted"
    /\ Len(books) = 2 /\ books[1].id = 1 /\ books[2].id = 3
    /\ Len(file.lines) = 2

(* ------------------------------ C7 ------------------------------------- *)
NothingDone(m) ==
    /\ UNCHANGED <<books, file, run>>
    /\ ~saved'
    /\ msg' = m

\* C7: a year that is not an integer (add_book), an id that is not an
\* integer (delete_book, update_status) and an unrecognised status selector
\* (update_status) are reported as invalid input, end the operation without
\* an error escaping it, change neither records nor file and do not save.
C7_InvalidInputNoEffect ==
    [][ /\ \A t \in TitleInputs, a \in AuthorInputs, y \in NonIntegerYears :
              add_book(t, a, y) => NothingDone("year_error")
        /\ \A i \in NonIntegerIds :
              delete_book(i) => NothingDone("id_error")
        /\ \A i \in NonIntegerIds, c \in ChoiceInputs :
              update_status(i, c) => NothingDone("id_error")
        /\ \A i \in IntegerIds, c \in UnrecognisedChoices :
              (IdValue[i] \in Ids(books) /\ update_status(i, c))
                  => NothingDone("bad_choice") ]_vars

C7_Witness ==
    /\ msg = "bad_choice" /\ ~saved /\ run = "up"
    /\ Len(books) = 2 /\ file.exists /\ Len(file.lines) = 2

(* ------------------------------ C8 ------------------------------------- *)
\* the record of the catalog with id v
BookWithId(v) == books[CHOOSE k \in DOMAIN books : books[k].id = v]

\* C8: update_status asking for the status the record already has reports
\* the no-op, changes neither records nor file and does not save; so a
\* repetition of a successful update_status changes nothing.
C8_SameStatusNoOp ==
    [][ \A i \in IntegerIds, c \in RecognisedChoices :
          (/\ IdValue[i] \in Ids(books)
           /\ BookWithId(IdValue[i]).status = Requested[c]
           /\ update_status(i, c))
              => /\ UNCHANGED <<books, file>>
                 /\ ~saved'
                 /\ msg' = "same_status" ]_vars

\* the second of two identical calls that ask for "issued" on record 1
C8_Witness ==
    /\ msg = "same_status" /\ ~saved
    /\ Len(books) = 1 /\ books[1].status = StatusIssued
    /\ FileMatchesBooks

(* ------------------------------ C9 ------------------------------------- *)
\* C9: update_status with an id of the catalog and a recognised status that
\* differs from the record's sets that record's status, changes no other
\* record, saves and reports success; with an id that is not in the catalog
\* it reports not-found and changes neither records nor file.
C9_UpdateStatusEffect ==
    [][ \A i \in IntegerIds :
          IF IdValue[i] \notin Ids(books)
          THEN \A c \in ChoiceInputs :
                  update_status(i, c) =>
                      /\ UNCHANGED <<books, file>>
                      /\ ~saved'
                      /\ msg' = "not_found"
          ELSE \A c \in RecognisedChoices :
                  (/\ BookWithId(IdValue[i]).status # Requested[c]
                   /\ update_status(i, c)) =>
                      /\ DOMAIN books' = DOMAIN books
                      /\ \A j \in DOMAIN books :
                             books'[j] = IF books[j].id = IdValue[i]
                                         THEN [books[j] EXCEPT
                                                  !.status = Requested[c]]
                                         ELSE books[j]
                      /\ saved' /\ file'.exists /\ FileMatchesBooks'
                      /\ msg' = "updated" ]_vars

\* the only record was just set back to available: it was created
\* available, set to issued by an earlier update and now set back
C9_Witness ==
    /\ msg = "updated" /\ saved
    /\ Len(books) = 1 /\ books[1].status = StatusAvailable
    /\ FileMatchesBooks

(* ------------------------------ C10 ------------------------------------ *)
NoDelimiter(text) == \A k \in DOMAIN text : text[k] # ";"

NoDelimiterIn(bs) ==
    \A j \in DOMAIN bs : NoDelimiter(bs[j].title) /\ NoDelimiter(bs[j].author)

\* a load of file f succeeds and yields a catalog that contains record b
LoadContains(f, b) ==
    /\ load_data(f).ok
    /\ \E k \in DOMAIN load_data(f).books : load_data(f).books[k] = b

AddedBook(t, a, y) ==
    [id |-> generate_id(books), title |-> strip(t), author |-> strip(a),
     year |-> YearValue[y], status |-> StatusAvailable]

\* C10 as stated: for any title, author and integer year add_book accepts,
\* a load of the file after the add yields a catalog that contains the
\* added record with identical fields.
C10_AddThenLoad ==
    [][ \A t \in DelimTitleInputs, a \in AuthorInputs, y \in IntegerYears :
          add_book(t, a, y) =>
              LoadContains(file', AddedBook(t, a, y)) ]_vars

\* C10 amended: the same, when no title and no author of the catalog after
\* the add (the added record included) contains the delimiter ';'.
C10_AddThenLoadNoDelimiter ==
    [][ \A t \in DelimTitleInputs, a \in AuthorInputs, y \in IntegerYears :
          (add_book(t, a, y) /\ NoDelimiterIn(books')) =>
              LoadContains(file', AddedBook(t, a, y)) ]_vars

\* two delimiter-free records, the second just added, and the file loads
\* back to the same catalog
C10_Witness ==
    /\ msg = "added" /\ saved
    /\ Len(books) = 2 /\ NoDelimiterIn(books)
    /\ load_data(file).ok /\ load_data(file).books = books

(* ------------------------------ C11 ------------------------------------ *)
\* a Book of the data model: positive id, non-empty title and author, one
\* of the two statuses
ValidBook(b) ==
    /\ b.id >= 1
    /\ b.title # <<>> /\ b.author # <<>>
    /\ b.status \in {StatusAvailable, StatusIssued}

\* C11: for every valid Book b whose title and author hold no ';',
\* from_string(to_string(b)) succeeds and gives a Book equal to b in all
\* five fields.
C11_RoundTrip ==
    \A i \in DOMAIN books :
        (/\ ValidBook(books[i])
         /\ NoDelimiter(books[i].title) /\ NoDelimiter(books[i].author))
            => /\ from_string(to_string(books[i])).ok
               /\ from_string(to_string(books[i])).book = books[i]

\* a loaded catalog of two valid books: a negative year, a title that
\* starts with a blank
C11_Witness ==
    /\ run = "up" /\ Len(books) = 2
    /\ ValidBook(books[1]) /\ ValidBook(books[2])
    /\ books[1].year < 0
    /\ books[2].title[1] = " "

(* ------------------------------ C12 ------------------------------------ *)
\* needle occurs in hay between some two positions
OccursIn(needle, hay) ==
    \E i, j \in 0..Len(hay) : i <= j /\ SubSeq(hay, i + 1, j) = needle

\* the match rule of the search, for the query as typed
Matches(b, q) ==
    \/ OccursIn(lower(strip(q)), lower(b.title))
    \/ OccursIn(lower(strip(q)), lower(b.author))
    \/ lower(strip(q)) = str(b.year)

\* the n-th smallest element of a set of indices
Nth(idx, n) == CHOOSE i \in idx : Cardinality({j \in idx : j < i}) = n - 1

\* C12: search_books lists exactly the records whose lowercased title or
\* author contains the lowercased query or whose year text equals it, in
\* catalog order (ascending id), reports no match when there is none, and
\* changes neither records nor file.
C12_SearchResult ==
    [][ \A q \in QueryInputs :
          search_books(q) =>
             LET idx == {i \in DOMAIN books : Matches(books[i], q)}
             IN  /\ Len(shown') = Cardinality(idx)
                 /\ \A n \in DOMAIN shown' : shown'[n] = books[Nth(idx, n)]
                 /\ AscendingIds(shown')
                 /\ msg' = IF idx = {} THEN "no_match" ELSE "found"
                 /\ UNCHANGED <<books, file>>
                 /\ ~saved' ]_vars

\* years 9 and 19 in the catalog, only the record of year 9 listed: the
\* query was "9"
C12_Witness ==
    /\ msg = "found"
    /\ Len(books) = 2 /\ books[1].year = 9 /\ books[2].year = 19
    /\ shown = <<books[1]>>

(* ------------------------------ C13 ------------------------------------ *)
EmptyLine(line) == line = <<"\n">> \/ line = <<>>

NonEmptyLines(f) == SelectSeq(f.lines, LAMBDA l : ~EmptyLine(l))

\* C13 as stated: load_data yields the records decoded from the non-empty
\* lines of the file (an empty line adds no record and is no failure),
\* ascending by id whatever the order of the lines; without a file it
\* yields the empty catalog and no error.
C13_LoadSkipsEmptyLines ==
    run # "down" =>
        LET ls == NonEmptyLines(file)
        IN  (\A i \in DOMAIN ls : from_string(ls[i]).ok) =>
                /\ run = "up"
                /\ books = sorted([i \in DOMAIN ls |-> from_string(ls[i]).book])

(* ------------------------------ C14 ------------------------------------ *)
\* fewer than five ';'-separated parts, or an id or year part that is not
\* an integer
Malformed(line) ==
    LET parts == split(strip(line), ";")
    IN  \/ Len(parts) < 5
        \/ ~int(parts[1]).ok
        \/ ~int(parts[4]).ok

\* C14: from_string fails on every malformed line, and one malformed line
\* anywhere in the file makes the whole load fail: the error ends the
\* process and no catalog, not even of the well-formed lines, is produced.
C14_MalformedLineIsFatal ==
    /\ \A i \in DOMAIN file.lines :
           Malformed(file.lines[i]) => ~from_string(file.lines[i]).ok
    /\ (run # "down" /\ \E i \in DOMAIN file.lines : Malformed(file.lines[i]))
           => run = "crashed" /\ books = <<>>

\* a well-formed first line, a malformed second line, the load failed
C14_Witness ==
    /\ run = "crashed" /\ books = <<>>
    /\ Len(file.lines) = 2
    /\ ~Malformed(file.lines[1]) /\ Malformed(file.lines[2])

(* ------------------------------ C15 ------------------------------------ *)
\* C15: no operation changes the id, title, author or year of a record
\* that is in the catalog before and after it; a record's status changes
\* only in a successful update_status, which changes one record.
C15_OnlyStatusChanges ==
    [][ msg' # "none" =>
          /\ \A i \in DOMAIN books, j \in DOMAIN books' :
                 books[i].id = books'[j].id =>
                    /\ books'[j].title = books[i].title
                    /\ books'[j].author = books[i].author
                    /\ books'[j].year = books[i].year
                    /\ books'[j].status # books[i].status =>
                           msg' = "updated" /\ saved'
          /\ Cardinality({i \in DOMAIN books : \E j \in DOMAIN books' :
                             /\ books[i].id = books'[j].id
                             /\ books[i].status # books'[j].status}) <= 1 ]_vars

\* an update on a catalog of three records
C15_Witness ==
    /\ msg = "updated" /\ saved /\ Len(books) = 3
    /\ books[1].status = StatusAvailable
    /\ books[2].status = StatusIssued
    /\ books[3].status = StatusAvailable

(* ------------------------------ C16 ------------------------------------ *)
\* C16 as stated: display_books with a list renders exactly the records of
\* that list in its order, without a list it renders the catalog; it
\* reports the empty catalog exactly when it renders the catalog and the
\* catalog has no record; it changes neither records nor file.
C16_ListRendersSubset ==
    [][ \A arg \in ListArgs(books) :
          display_books(arg) =>
             /\ shown' = IF arg.given THEN arg.rows ELSE books
             /\ (~arg.given /\ books = <<>>) => msg' = "empty"
             /\ msg' = "empty" => books = <<>>
             /\ UNCHANGED <<books, file>> ]_vars

(* ------------------------------ C17 ------------------------------------ *)
\* the status field of a file line
LineStatus(line) == split(strip(line), ";")[5]

TwoStatuses == {StatusAvailable, StatusIssued}

C18_NonEmptyFields ==
    \A j \in DOMAIN books :
        /\ books[j].title # <<>>
        /\ books[j].author # <<>>
        /\ books[j].id >= 1

(* ------------------------------ C19 ------------------------------------ *)
\* record b is among the records the file decodes to
InFile(b) ==
    /\ load_data(file).ok
    /\ \E k \in DOMAIN load_data(file).books : load_data(file).books[k] = b

\* C19: with two processes on one file nothing is locked or merged; a save
\* leaves the file holding the saving process's records and no other, so a
\* record the other process added with success can be gone from the file.
C19_SaveOverwrites ==
    saved =>
        /\ load_data(file).ok
        /\ load_data(file).books = books

\* the lost update: the other process holds a record it added that the
\* file lost to this process's save
C19_Witness ==
    /\ saved /\ msg = "added"
    /\ \E j \in DOMAIN peer : ~InFile(peer[j])

(* ------------------------------ C20 ------------------------------------ *)
\* C20: for a catalog of n records, whatever their ids (duplicates and
\* non-positive ids of a loaded file included), generate_id ends with a
\* result r, 1 <= r <= n + 1, that is not an id of the catalog.
C20_GenerateIdBounded ==
    run = "up" =>
        /\ generate_id(books) \in 1..(Len(books) + 1)
        /\ generate_id(books) \notin Ids(books)

\* a loaded catalog with the ids 0 and 1: the result is n, below n + 1
C20_Witness ==
    /\ run = "up" /\ Len(books) = 2
    /\ books[1].id = 0 /\ books[2].id = 1
    /\ generate_id(books) = 2
====
